---- MODULE Spec2Model ----
(***************************************************************************)
(* Model of create-spectrograms (src/__main__.py): the labelled-range      *)
(* extractor output_data_to_csv, the sliding-window renderer interate_data *)
(* with generate_spectrogram_from_data, and the orchestration in main.     *)
(*                                                                         *)
(* Three specifications share the variables:                               *)
(*   SpecExtract  calls of output_data_to_csv on one channel sequence      *)
(*   Spec         invocations of interate_data on one state segment        *)
(*   SpecMain     main(): the split stage followed by the image stage      *)
(* A sample is represented by its zero-based position in the sequence it   *)
(* was loaded from, so two slices are equal only if they cover the same    *)
(* positions.                                                              *)
(***************************************************************************)
EXTENDS Integers, Sequences, FiniteSets, TLC

\* ---------------------------------------------------------------- bounds
MaxLen == 3        \* longest channel sequence handed to output_data_to_csv
MaxIdx == 4        \* largest interval bound handed to output_data_to_csv
MaxWindows == 3    \* most windows of one interate_data invocation

\* ------------------------------------------------------ program constants
FREQUENCY == 128
M == 64
move == 128
j_start == 256
LABELS == <<"FOCUSED", "UNFOCUSED", "DROWSY">>

Min(a, b) == IF a < b THEN a ELSE b

\* A loaded sequence of n samples, each sample standing for its position.
Samples(n) == [k \in 1..n |-> k - 1]

\* Python's s[a:b] for 0 <= a, 0 <= b: clipped to the sequence, never an error.
PySlice(s, a, b) == SubSeq(s, a + 1, Min(b, Len(s)))

VARIABLES
  \* output_data_to_csv
  channel_data,   \* data[:, channel]
  csv_files,      \* the CSV files of the channel directory: filename -> rows
  csv_stdout,     \* the diagnostics printed by the except branch
  call,           \* the arguments of the latest call, <<>> before the first
  csv_before,     \* csv_files as it was when the latest call started
  \* interate_data / generate_spectrogram_from_data
  fs, m, data, output_file,
  i, j, counter,
  sub_data, sub_output_file,
  Sxx_zero,       \* does the power grid of the current window hold a zero
  zero_windows,   \* the window start positions whose power grid holds a zero
  pc,             \* position inside interate_data
  figure,         \* what is drawn on pyplot's current figure
  files,          \* the image files on disk: path -> what the image shows
  stdout,         \* 'Caught divide by 0 error' lines of this invocation
  saved,          \* the savefig calls of this invocation, in order
  windows,        \* the windows handed to the transform, in order
  clf_calls,      \* the plt.clf() calls of this invocation
  run,            \* which invocation on the same inputs this is
  prev,           \* what the previous invocation left behind
  \* main
  args_split,     \* args.split_data
  args_state,     \* args.state, "None" when -i is not given
  dirs,           \* the directories that exist under CWD
  state_csv,      \* the labels that have CSV files under state-data
  states,         \* the states handle_create_spectrograms has still to do
  main_pc,        \* position inside main
  exit_code,      \* the process's exit status
  main_stdout,    \* what main printed
  dir_ops,        \* the directory operations performed, in order
  rendered        \* the states interate_data was called for

exVars == <<channel_data, csv_files, csv_stdout, call, csv_before>>
rVars == <<fs, m, data, output_file, i, j, counter, sub_data, sub_output_file,
           Sxx_zero, zero_windows, pc, figure, files, stdout, saved, windows,
           clf_calls, run, prev>>
mVars == <<args_split, args_state, dirs, state_csv, states, main_pc,
           exit_code, main_stdout, dir_ops, rendered>>
vars == <<exVars, rVars, mVars>>

\* The variables a specification does not use stay at these values.
ExIdle ==
  /\ channel_data = <<>> /\ csv_files = <<>> /\ csv_stdout = <<>>
  /\ call = <<>> /\ csv_before = <<>>
RIdle ==
  /\ fs = 0 /\ m = 0 /\ data = <<>> /\ output_file = ""
  /\ i = 0 /\ j = 0 /\ counter = 0 /\ sub_data = <<>> /\ sub_output_file = <<>>
  /\ Sxx_zero = FALSE /\ zero_windows = {} /\ pc = "idle" /\ figure = {}
  /\ files = <<>> /\ stdout = <<>> /\ saved = <<>> /\ windows = <<>>
  /\ clf_calls = 0 /\ run = 0 /\ prev = <<>>
MIdle ==
  /\ args_split = FALSE /\ args_state = "None" /\ dirs = {} /\ state_csv = {}
  /\ states = <<>> /\ main_pc = "idle" /\ exit_code = 0 /\ main_stdout = <<>>
  /\ dir_ops = <<>> /\ rendered = {}

\* ===================================================== output_data_to_csv

\* Variant: the end of the range taken as inclusive.
PyRangeInclusive(a, b) == [n \in 1..(IF b >= a THEN b - a + 1 ELSE 0) |-> a + n - 1]

\* range(a, b) as the sequence of its elements.
PyRange(a, b) == [n \in 1..(IF b > a THEN b - a ELSE 0) |-> a + n - 1]

\* numpy's bounds check of an integer-array index: any index >= len(s) raises.
IndexError(s, idx) == \E n \in DOMAIN idx : idx[n] >= Len(s)

\* s[idx] for an integer-array index within bounds.
Take(s, idx) == [n \in DOMAIN idx |-> s[idx[n] + 1]]

\* np.savetxt(output_path, rows): creates or overwrites the file.
SaveTxt(fsys, name, rows) ==
  [p \in DOMAIN fsys \cup {name} |-> IF p = name THEN rows ELSE fsys[p]]

\* Variant: the except branch falls through and an empty file is saved.
OnIndexErrorFallThrough(fsys, name) ==
  [p \in DOMAIN fsys \cup {name} |-> IF p = name THEN <<>> ELSE fsys[p]]

\* The except branch returns before np.savetxt: the files stay as they are.
OnIndexError(fsys, name) == fsys

\* The three calls handle_split_data makes for one channel, in order.
output_data_to_csv(filename, state) ==
  /\ csv_before' = csv_files
  /\ call' = [filename |-> filename, state |-> state]
  /\ IF IndexError(channel_data, PyRange(state[1], state[2]))
       THEN /\ csv_stdout' = Append(csv_stdout, <<filename, Len(channel_data)>>)
            /\ csv_files' = OnIndexError(csv_files, filename)
       ELSE /\ csv_files' = SaveTxt(csv_files, filename,
                                    Take(channel_data, PyRange(state[1], state[2])))
            /\ UNCHANGED csv_stdout
  /\ UNCHANGED channel_data

Intervals == {<<a, b>> : a \in 0..MaxIdx, b \in 0..MaxIdx} \cap
             {st \in (0..MaxIdx) \X (0..MaxIdx) : st[1] <= st[2]}

NextLabel ==
  IF call = <<>> THEN 1
  ELSE (CHOOSE n \in 1..Len(LABELS) : LABELS[n] = call.filename) + 1

ExtractStep ==
  /\ NextLabel <= Len(LABELS)
  /\ \E state \in Intervals : output_data_to_csv(LABELS[NextLabel], state)
  /\ UNCHANGED <<rVars, mVars>>

InitExtract ==
  /\ channel_data \in {Samples(n) : n \in 0..MaxLen}
  /\ csv_files = <<>> /\ csv_stdout = <<>> /\ call = <<>> /\ csv_before = <<>>
  /\ RIdle /\ MIdle

SpecExtract == InitExtract /\ [][ExtractStep]_vars

\* ============================== interate_data / generate_spectrogram_from_data

\* '{0}_{1}'.format(output_file, str(counter)): the prefix and the ordinal.
Format(prefix, ordinal) == <<prefix, ordinal>>

\* Variant: divide errors left at numpy's default, log10 yields -inf silently.
Log10Silent(has_zero) == FALSE

\* np.seterr(divide='raise'): np.log10 of a grid holding a zero raises
\* FloatingPointError while the argument of plt.pcolormesh is evaluated.
Log10Raises(has_zero) == has_zero

\* plt.savefig(path): the image shows whatever the figure holds.
Savefig_write(fsys, path, fig) ==
  [p \in DOMAIN fsys \cup {path} |-> IF p = path THEN fig ELSE fsys[p]]

\* Variant: the figure is not cleared.
ClfOmitted(fig) == fig

\* plt.clf()
Clf(fig) == {}

\* Variant: the ordinal is not reset on entry.
EnterKeepCounter ==
  /\ UNCHANGED <<exVars, mVars>>
  /\ pc = "ready"
  /\ i' = 0 /\ j' = j_start
  /\ pc' = "loop"
  /\ UNCHANGED <<fs, m, data, output_file, counter, sub_data, sub_output_file,
                 Sxx_zero, zero_windows, figure, files, stdout, saved, windows,
                 clf_calls, run, prev>>

\* move = 128; i = 0; j = 256; counter = 1
Enter ==
  /\ UNCHANGED <<exVars, mVars>>
  /\ pc = "ready"
  /\ i' = 0 /\ j' = j_start /\ counter' = 1
  /\ pc' = "loop"
  /\ UNCHANGED <<fs, m, data, output_file, sub_data, sub_output_file, Sxx_zero,
                 zero_windows, figure, files, stdout, saved, windows, clf_calls, run, prev>>

\* while j < len(data): sub_data = data[i:j]; sub_output_file = ...
LoopTest ==
  /\ UNCHANGED <<exVars, mVars>>
  /\ pc = "loop"
  /\ IF j < Len(data)
       THEN /\ sub_data' = PySlice(data, i, j)
            /\ sub_output_file' = Format(output_file, counter)
            /\ pc' = "window"
       ELSE /\ pc' = "done"
            /\ UNCHANGED <<sub_data, sub_output_file>>
  /\ UNCHANGED <<fs, m, data, output_file, i, j, counter, Sxx_zero, zero_windows,
                 figure, files, stdout, saved, windows, clf_calls, run, prev>>

\* f, t, Sxx = signal.spectrogram(data, fs, noverlap=overlap, window=...)
\* The transform is a function of the window; whether its power grid holds an
\* exact zero is fixed by the input (zero_windows).
Transform ==
  /\ UNCHANGED <<exVars, mVars>>
  /\ pc = "window"
  /\ Sxx_zero' = (i \in zero_windows)
  /\ windows' = Append(windows, [path |-> sub_output_file, start |-> i,
                                 sub_data |-> sub_data])
  /\ pc' = "transformed"
  /\ UNCHANGED <<fs, m, data, output_file, i, j, counter, sub_data,
                 sub_output_file, zero_windows, figure, files, stdout, saved,
                 clf_calls, run, prev>>

\* try: plt.pcolormesh(t, f, np.log10(Sxx)); plt.set_cmap; plt.axis
Plot ==
  /\ UNCHANGED <<exVars, mVars>>
  /\ pc = "transformed"
  /\ ~Log10Raises(Sxx_zero)
  /\ figure' = figure \cup {sub_data}
  /\ pc' = "plotted"
  /\ UNCHANGED <<fs, m, data, output_file, i, j, counter, sub_data,
                 sub_output_file, Sxx_zero, zero_windows, files, stdout, saved,
                 windows, clf_calls, run, prev>>

\* plt.savefig(output_filepath, ...); plt.clf()
Savefig ==
  /\ UNCHANGED <<exVars, mVars>>
  /\ pc = "plotted"
  /\ files' = Savefig_write(files, sub_output_file, figure)
  /\ saved' = Append(saved, sub_output_file)
  /\ figure' = Clf(figure)
  /\ clf_calls' = clf_calls + 1
  /\ pc' = "returned"
  /\ UNCHANGED <<fs, m, data, output_file, i, j, counter, sub_data,
                 sub_output_file, Sxx_zero, zero_windows, stdout, windows,
                 run, prev>>

\* Variant: the error ends the loop instead of the window.
ExceptEndsLoop ==
  /\ UNCHANGED <<exVars, mVars>>
  /\ pc = "transformed"
  /\ Log10Raises(Sxx_zero)
  /\ stdout' = Append(stdout, sub_output_file)
  /\ pc' = "done"
  /\ UNCHANGED <<fs, m, data, output_file, i, j, counter, sub_data,
                 sub_output_file, Sxx_zero, zero_windows, figure, files, saved,
                 windows, clf_calls, run, prev>>

\* except FloatingPointError: print('Caught divide by 0 error: ...'); return
Except ==
  /\ UNCHANGED <<exVars, mVars>>
  /\ pc = "transformed"
  /\ Log10Raises(Sxx_zero)
  /\ stdout' = Append(stdout, sub_output_file)
  /\ pc' = "returned"
  /\ UNCHANGED <<fs, m, data, output_file, i, j, counter, sub_data,
                 sub_output_file, Sxx_zero, zero_windows, figure, files, saved,
                 windows, clf_calls, run, prev>>

\* Variant: the ordinal counts the rendered windows only.
AdvanceCountRendered ==
  /\ UNCHANGED <<exVars, mVars>>
  /\ pc = "returned"
  /\ i' = i + move /\ j' = j + move
  /\ counter' = IF Sxx_zero THEN counter ELSE counter + 1
  /\ pc' = "loop"
  /\ UNCHANGED <<fs, m, data, output_file, sub_data, sub_output_file, Sxx_zero,
                 zero_windows, figure, files, stdout, saved, windows, clf_calls,
                 run, prev>>

\* i += move; j += move; counter += 1
Advance ==
  /\ UNCHANGED <<exVars, mVars>>
  /\ pc = "returned"
  /\ i' = i + move /\ j' = j + move /\ counter' = counter + 1
  /\ pc' = "loop"
  /\ UNCHANGED <<fs, m, data, output_file, sub_data, sub_output_file, Sxx_zero,
                 zero_windows, figure, files, stdout, saved, windows, clf_calls, run, prev>>

\* The same inputs once more: create_output_directory empties the directory,
\* then interate_data is called again. pyplot's figure is module state and
\* is carried over.
Rerun ==
  /\ UNCHANGED <<exVars, mVars>>
  /\ pc = "done" /\ run = 1
  /\ prev' = [paths |-> DOMAIN files, rendered |-> Len(saved),
              skipped |-> Len(stdout)]
  /\ files' = <<>> /\ stdout' = <<>> /\ saved' = <<>> /\ windows' = <<>>
  /\ clf_calls' = 0
  /\ run' = 2
  /\ pc' = "ready"
  /\ UNCHANGED <<fs, m, data, output_file, i, j, counter, sub_data,
                 sub_output_file, Sxx_zero, zero_windows, figure>>

\* Sequence lengths around every bound of the loop test.
Lengths ==
  {0} \cup {j_start + move * k + d : k \in 0..(MaxWindows - 1), d \in {-1, 0, 1}}

WindowStarts == {move * k : k \in 0..(MaxWindows - 1)}

Init ==
  /\ fs \in {FREQUENCY, M}
  /\ m \in {M, j_start}
  /\ data \in {Samples(n) : n \in Lengths}
  /\ zero_windows \in SUBSET WindowStarts
  /\ output_file = "FOCUSED"
  /\ i = 0 /\ j = 0 /\ counter = 0
  /\ sub_data = <<>> /\ sub_output_file = <<>> /\ Sxx_zero = FALSE
  /\ pc = "ready" /\ figure = {} /\ files = <<>>
  /\ stdout = <<>> /\ saved = <<>> /\ windows = <<>>
  /\ clf_calls = 0 /\ run = 1 /\ prev = <<>>
  /\ ExIdle /\ MIdle

Next ==
  \/ Enter \/ LoopTest \/ Transform \/ Plot \/ Savefig \/ Except
  \/ Advance \/ Rerun

Spec == Init /\ [][Next]_vars

\* One thread runs every statement to completion: a step that can be taken is.
FairSpec == Spec /\ WF_vars(Next)

\* ==================================================================== main

STATE_DATA_OUTPUT == "state-data"

\* create_output_directory: an existing directory is removed, then os.mkdir.
create_output_directory_ops(existing, path) ==
  IF path \in existing THEN <<<<"rmtree", path>>, <<"mkdir", path>>>>
  ELSE <<<<"mkdir", path>>>>

\* Variant: the directory is not looked for.
StateDataCheckOmitted(existing) == FALSE

\* not os.path.isdir(STATE_DATA_OUTPUT)
StateDataMissing(existing) == STATE_DATA_OUTPUT \notin existing

\* states = ['FOCUSED', 'UNFOCUSED', 'DROWSY'] if state == 'ALL' else [state]
StatesOf(state) == IF state = "ALL" THEN LABELS ELSE <<state>>

\* if args.split_data: handle_split_data(all_files, CHANNELS)
\* The state ranges increase, so the labels whose range fits a recording
\* (output_data_to_csv writes a file for exactly those) are a prefix of LABELS.
MainSplit ==
  /\ main_pc = "start"
  /\ IF args_split
       THEN /\ dir_ops' = dir_ops \o create_output_directory_ops(dirs, STATE_DATA_OUTPUT)
            /\ dirs' = dirs \cup {STATE_DATA_OUTPUT}
            /\ \E n \in 0..Len(LABELS) : state_csv' = {LABELS[k] : k \in 1..n}
       ELSE UNCHANGED <<dir_ops, dirs, state_csv>>
  /\ main_pc' = "images"
  /\ UNCHANGED <<args_split, args_state, states, exit_code, main_stdout, rendered>>
  /\ UNCHANGED <<exVars, rVars>>

\* if args.state: handle_create_spectrograms(args.state), up to the loop
MainImages ==
  /\ main_pc = "images"
  /\ IF args_state = "None"
       THEN /\ main_pc' = "done"
            /\ UNCHANGED <<states, exit_code, main_stdout>>
       ELSE IF StateDataMissing(dirs)
         THEN /\ main_stdout' = Append(main_stdout, <<"Error", STATE_DATA_OUTPUT>>)
              /\ exit_code' = 1
              /\ main_pc' = "exited"
              /\ states' = StatesOf(args_state)
         ELSE /\ states' = StatesOf(args_state)
              /\ main_pc' = "states"
              /\ UNCHANGED <<exit_code, main_stdout>>
  /\ UNCHANGED <<args_split, args_state, dirs, state_csv, dir_ops, rendered>>
  /\ UNCHANGED <<exVars, rVars>>

\* for curr_state in states: create_output_directory(output_root); for every
\* CSV file of the state: os.makedirs, load_raw_state_data, interate_data
MainState ==
  /\ main_pc = "states"
  /\ IF states = <<>>
       THEN /\ main_pc' = "done"
            /\ UNCHANGED <<states, dirs, dir_ops, rendered>>
       ELSE /\ dir_ops' = dir_ops \o create_output_directory_ops(dirs, Head(states))
            /\ dirs' = dirs \cup {Head(states)}
            /\ rendered' = IF Head(states) \in state_csv
                             THEN rendered \cup {Head(states)} ELSE rendered
            /\ states' = Tail(states)
            /\ UNCHANGED main_pc
  /\ UNCHANGED <<args_split, args_state, state_csv, exit_code, main_stdout>>
  /\ UNCHANGED <<exVars, rVars>>

LabelSet == {LABELS[k] : k \in 1..Len(LABELS)}

InitMain ==
  /\ args_split \in BOOLEAN
  /\ args_state \in LabelSet \cup {"ALL", "None"}
  /\ dirs \in SUBSET (LabelSet \cup {STATE_DATA_OUTPUT})
  /\ state_csv \in IF STATE_DATA_OUTPUT \in dirs
                     THEN {{LABELS[k] : k \in 1..n} : n \in 0..Len(LABELS)}
                     ELSE {{}}
  /\ states = <<>> /\ main_pc = "start" /\ exit_code = 0 /\ main_stdout = <<>>
  /\ dir_ops = <<>> /\ rendered = {}
  /\ ExIdle /\ RIdle

NextMain == MainSplit \/ MainImages \/ MainState

SpecMain == InitMain /\ [][NextMain]_vars

\* ================================================================== claims

\* ---- output_data_to_csv (SpecExtract)
Called == call # <<>>
IvStart == call.state[1]
IvEnd == call.state[2]
Reported(name) == \E n \in DOMAIN csv_stdout : csv_stdout[n][1] = name
Written(name, rows) == name \in DOMAIN csv_files /\ csv_files[name] = rows

\* C1 as stated: after a call with 0 <= a <= b and a <= len(s) the file holds
\* s[a : min(b, len(s))] and no out-of-range condition was reported.
C1_ClippedNeverAnError ==
  (Called /\ IvStart <= Len(channel_data)) =>
    /\ Written(call.filename, PySlice(channel_data, IvStart, IvEnd))
    /\ ~Reported(call.filename)

\* C1 amended: after a call with 0 <= a <= b <= len(s) the file holds s[a:b]
\* and nothing was reported; after a call with a < b and b > len(s) the
\* out-of-range condition was reported and the files are as they were.
C1_SliceWhenInsideElseReported ==
  Called =>
    /\ IvEnd <= Len(channel_data) =>
         /\ Written(call.filename, SubSeq(channel_data, IvStart + 1, IvEnd))
         /\ ~Reported(call.filename)
    /\ (IvStart < IvEnd /\ IvEnd > Len(channel_data)) =>
         /\ Reported(call.filename)
         /\ csv_files = csv_before

C1_Witness ==
  /\ Called
  /\ IvStart < Len(channel_data) /\ IvEnd > Len(channel_data)
  /\ Reported(call.filename)
  /\ csv_files = csv_before

Count(seq, x) == Cardinality({n \in DOMAIN seq : seq[n] = x})
RenderedCount == Len(saved)
SkippedCount == Len(stdout)
\* The windows whose render has returned.
Completed(n) ==
  n \in DOMAIN windows /\ ~(n = Len(windows) /\ pc \in {"transformed", "plotted"})
\* The window positions k (start move * k) whose upper bound is below len(data).
Positions == {k \in 0..Len(data) : j_start + move * k < Len(data)}

\* C3 as stated: an invocation on a sequence of length L processes
\* floor((L - W) / S) + 1 windows when that is >= 1 and none otherwise, with
\* W = 256 and S = 128 the window length and stride the loop uses.
C3_WindowCountFormula ==
  pc = "done" =>
    RenderedCount + SkippedCount =
      (IF (Len(data) - j_start) \div move + 1 >= 1
         THEN (Len(data) - j_start) \div move + 1 ELSE 0)

\* C4: the windows get the ordinals 1, 2, 3, ... in processing order, a skipped
\* window consuming its ordinal: the n-th window starts at position n - 1 and
\* is named by ordinal n, whatever was rendered before it.
C4_OrdinalIsWindowPosition ==
  /\ \A n \in DOMAIN windows :
       /\ windows[n].path = Format(output_file, n)
       /\ windows[n].start = (n - 1) * move
  /\ \A n \in DOMAIN saved : \E k \in DOMAIN windows :
       /\ windows[k].path = saved[n] /\ windows[k].start \notin zero_windows
  /\ \A n \in DOMAIN stdout : \E k \in DOMAIN windows :
       /\ windows[k].path = stdout[n] /\ windows[k].start \in zero_windows

C4_Witness ==
  \E n \in DOMAIN saved : saved[n][2] > n /\ saved[n] \in DOMAIN files

\* C5: a window whose power grid holds a zero leaves no file and adds exactly
\* one to the skipped count; a window whose grid is strictly positive leaves
\* exactly one file, named by its own ordinal, and adds exactly one to the
\* rendered count.
C5_ZeroSkipsPositiveRenders ==
  /\ \A n \in DOMAIN windows : Completed(n) =>
       IF windows[n].start \in zero_windows
         THEN /\ windows[n].path \notin DOMAIN files
              /\ Count(stdout, windows[n].path) = 1
              /\ Count(saved, windows[n].path) = 0
         ELSE /\ windows[n].path \in DOMAIN files
              /\ windows[n].path = Format(output_file, n)
              /\ Count(saved, windows[n].path) = 1
              /\ Count(stdout, windows[n].path) = 0
  /\ RenderedCount + SkippedCount = Cardinality({n \in DOMAIN windows : Completed(n)})
  /\ Cardinality(DOMAIN files) = RenderedCount

C5_Witness ==
  /\ pc = "done" /\ RenderedCount >= 1 /\ SkippedCount >= 1
  /\ \E n \in DOMAIN windows : windows[n].start \in zero_windows

\* C6: every invocation reaches DONE, and only after every window position
\* with j < len(sequence) was processed, in increasing order, skipped windows
\* included; a returned render is followed by the loop test, the position
\* never goes back, and from DONE nothing but a fresh invocation follows.
C6_DoneAfterEveryWindow ==
  /\ (pc = "ready") ~> (pc = "done")
  /\ [](pc = "done" =>
          /\ Len(windows) = Cardinality(Positions)
          /\ \A n \in DOMAIN windows : windows[n].start = (n - 1) * move)
  /\ [][pc = "returned" => pc' = "loop"]_vars
  /\ [][pc \notin {"ready", "done"} => (i' >= i /\ Len(windows') >= Len(windows))]_vars
  /\ [][pc = "done" => (pc' = "ready" /\ run' = run + 1)]_vars

C6_Witness ==
  /\ pc = "done"
  /\ \E n \in DOMAIN windows :
       n < Len(windows) /\ windows[n].start \in zero_windows

\* C7 as stated: the figure is cleared on every exit path of a window's
\* render, after a write and after a skip alike.
C7_ClearedOnEveryExit ==
  pc = "returned" => clf_calls = Len(windows)

\* C7 amended: the figure is cleared after every write and not after a skip,
\* where nothing was drawn; when a window starts drawing the figure holds
\* nothing, and every image shows its own window only.
C7_ClearedAfterWriteCleanWhenDrawing ==
  /\ clf_calls = RenderedCount
  /\ pc = "transformed" => figure = {}
  /\ pc = "returned" => figure = {}
  /\ \A p \in DOMAIN files : \E n \in DOMAIN windows :
       windows[n].path = p /\ files[p] = {windows[n].sub_data}

C7_Witness ==
  /\ pc = "plotted"
  /\ RenderedCount >= 1 /\ SkippedCount >= 1
  /\ clf_calls < Len(windows) - 1
  /\ figure = {sub_data}

\* C9: a second invocation on the same inputs, started on an empty directory,
\* leaves the same file paths, the same rendered count and the same skipped
\* count as the first.
C9_RerunReproduces ==
  (run = 2 /\ pc = "done") =>
    /\ DOMAIN files = prev.paths
    /\ RenderedCount = prev.rendered
    /\ SkippedCount = prev.skipped

C9_Witness ==
  /\ run = 2 /\ pc = "done"
  /\ prev.rendered >= 1 /\ prev.skipped >= 1
  /\ DOMAIN files = prev.paths

\* C10 as stated: the window with ordinal k is
\* sequence[(k-1)*sample_rate : (k-1)*sample_rate + window_length] and has
\* window_length samples.
C10_WindowFromArguments ==
  \A n \in DOMAIN windows :
    /\ windows[n].sub_data = PySlice(data, (n - 1) * fs, (n - 1) * fs + m)
    /\ Len(windows[n].sub_data) = m

\* ---- main (SpecMain)
\* The operations performed on the per-state output directories.
OutputDirOps == {n \in DOMAIN dir_ops : dir_ops[n][2] \in LabelSet}
ImagesRequested == args_state # "None"

\* C8: image generation requested with no state-data directory ends the
\* process with status 1 after a diagnostic, before any per-state output
\* directory is created, deleted or recreated and before any window is
\* rendered; with the split flag given too, the split stage has run first and
\* the check passes.
C8_MissingStateDataExitsFirst ==
  /\ main_pc = "exited" =>
       /\ exit_code = 1
       /\ main_stdout = <<<<"Error", STATE_DATA_OUTPUT>>>>
       /\ ImagesRequested /\ ~args_split
       /\ STATE_DATA_OUTPUT \notin dirs
       /\ dir_ops = <<>> /\ rendered = {}
  /\ main_pc # "exited" => (exit_code = 0 /\ main_stdout = <<>>)
  /\ (ImagesRequested /\ main_pc \in {"states", "done"}) =>
       STATE_DATA_OUTPUT \in dirs
  /\ (OutputDirOps # {} \/ rendered # {}) =>
       (ImagesRequested /\ STATE_DATA_OUTPUT \in dirs)
  /\ (args_split /\ ImagesRequested) =>
       /\ main_pc # "exited"
       /\ \A n \in OutputDirOps : \E k \in 1..(n - 1) :
            dir_ops[k] = <<"mkdir", STATE_DATA_OUTPUT>>

C8_Witness ==
  /\ main_pc = "exited" /\ exit_code = 1
  /\ dirs \cap LabelSet # {}
  /\ dir_ops = <<>>

====
